---- MODULE Spec2Model ----
(***************************************************************************)
(* fc2-live-dl (fc2_live_dl2.py): the control-channel client FC2WebSocket, *)
(* the orchestrator FC2LiveDL.download, FC2LiveStream.wait_for_online and  *)
(* the life cycle of LiveStreamRecorder, as one state machine.             *)
(*                                                                         *)
(* Every asyncio task is a process whose position is the await it is       *)
(* suspended in; the code between two awaits runs without interruption     *)
(* (one event loop, one thread), so it is one action.                      *)
(***************************************************************************)
EXTENDS Integers, Sequences, FiniteSets, TLC

\* ---------------------------------------------------------------- bounds
\* Callers of get_hls_information besides download (caller 0).
NumAux == 1
\* Cap of the session's message counter (heartbeats would go on for ever).
MaxMsgId == 3
\* Unsolicited messages the server pushes in one session.
MaxPush == 2
\* Online-status queries the run makes before the model stops polling.
MaxQueries == 3
\* Largest wait_poll_interval tried.
MaxInterval == 2
\* Diagnostic lines the recorder writes.
MaxLines == 1
\* Most variants of a manifest, in all its lists.
MaxList == 3
\* Longest generated line of ffmpeg, without the carriage return that ends it.
MaxChars == 4

\* ------------------------------------------------------- program constants
PAID_PROGRAM == 4101
MULTIPLE_CONNECTION == 4512
\* a control_disconnection code the program does not know
OTHER_CODE == 4000
\* key_map: `if mode >= 90: return mode - 90`
AUDIO_ONLY == 90

VARIABLES
    \* FC2WebSocket fields
    msg_id,          \* self._msg_id
    msg_responses,   \* self._msg_responses: id -> stored value
    is_ready,        \* self._is_ready
    comments,        \* self.comments (asyncio.Queue), as a sequence
    ws_state,        \* self._ws: "none", "open", "closing" (in __aexit__), "closed"
    incoming_pc,     \* task _handle_incoming: "none","new","receive","raised","cancelled"
    incoming_exc,    \* the exception that ended _handle_incoming
    heartbeat_pc,    \* task _handle_heartbeat: "none","new","send","sleep","cancelled"
    must_cancel,     \* tasks on which cancel() was called and that have not run since
    \* the socket
    inbound,         \* frames the server sent that no receive_json has taken yet
    sent,            \* frames the client sent, in send order
    responded,       \* ids the server has answered
    pushes,          \* number of unsolicited messages the server sent
    ncomments,       \* number of comment entries the server sent
    handled,         \* messages _receive_message() returned to _handle_incoming
    \* one record per call of get_hls_information
    call_pc,         \* "idle","send","receive","returned","failed"
    call_sent,       \* the id in the request this call transmitted (0: none)
    call_msg_id,     \* the local msg_id of _send_message_and_wait (0: not yet set)
    call_result,     \* what get_hls_information returned
    \* FC2LiveDL.download
    params,          \* self.params
    dl_pc,           \* the await download is suspended in
    dl_exc,          \* the exception unwinding through download ("none")
    dl_result,       \* "running","returned","interrupted","raised"
    cancel,          \* "none","requested","delivered": task.cancel() on main's task
    cancel_at,       \* dl_pc when the CancelledError was thrown into download
    online_log,      \* results of the is_online() calls, in order
    wait_i,          \* increments left in the for loop of wait_for_online
    \* LiveStreamRecorder
    rec_state,       \* "none","running","exited" (returncode set)
    rec_eof,         \* ffmpeg's stderr has ended
    rec_out,         \* lines on ffmpeg's stderr not yet read
    rec_lines,       \* number of lines ffmpeg wrote
    rec_sigint,      \* SIGINT was sent to ffmpeg
    rec_ret,         \* `ret` of line 249: "unset", "none" (no returncode), "code"
    rec_waited,      \* self._ffmpeg.wait() returned
    \* who wrote to and who removed from self._msg_responses (history)
    stored_by,       \* {[id, by]}: by stored the `_response_` with this id
    popped_by,       \* {[id, by]}: call `by` popped the entry with this id
    \* FC2LiveDL._get_hls_url, called on its own
    quality,         \* self.params['quality']
    latency,         \* self.params['latency']
    hls_info,        \* the manifest: playlist name -> list of variants
    sel_pc,          \* "off","call","merged","sorted","returned","raised"
    p_merged,        \* p_merged of line 361
    p_sorted,        \* p_sorted of line 362
    playlist,        \* playlist of line 363
    \* LiveStreamRecorder.get_status, called on its own
    st_lines,        \* the lines readuntil will return, each a sequence of characters
    st_pc,           \* "off","readuntil","raised"
    st_line,         \* the line the last call of get_status parsed
    stats            \* what the last call of get_status returned

ws_vars == <<msg_id, msg_responses, is_ready, comments, ws_state, incoming_pc,
             incoming_exc, heartbeat_pc, must_cancel>>
sock_vars == <<inbound, sent, responded, pushes, ncomments, handled>>
call_vars == <<call_pc, call_sent, call_msg_id, call_result>>
dl_vars == <<params, dl_pc, dl_exc, dl_result, cancel, cancel_at, online_log, wait_i>>
rec_vars == <<rec_state, rec_eof, rec_out, rec_lines, rec_sigint, rec_ret, rec_waited>>
log_vars == <<stored_by, popped_by>>
sel_vars == <<quality, latency, hls_info, sel_pc, p_merged, p_sorted, playlist>>
st_vars == <<st_lines, st_pc, st_line, stats>>
session_vars == <<ws_vars, sock_vars, call_vars, dl_vars, rec_vars, log_vars>>
vars == <<session_vars, sel_vars, st_vars>>

\* ---------------------------------------------------------------- messages
Callers == 0..NumAux
Download == 0
\* the heartbeat loop, as a sender
Heartbeat == NumAux + 1
\* the dispatch loop, as a reader of the socket
Incoming == NumAux + 2

NoArguments == [code |-> 0, comments |-> <<>>, hls |-> 0]

Message(name, id, arguments) == [name |-> name, id |-> id, arguments |-> arguments]

\* The manifest the server returns for request id: distinct per request.
HlsInformation(id) == [NoArguments EXCEPT !.hls = id]

Response(id) == Message("_response_", id, HlsInformation(id))
ConnectComplete == Message("connect_complete", 0, NoArguments)
ControlDisconnection(code) ==
    Message("control_disconnection", 0, [NoArguments EXCEPT !.code = code])
Comment(entries) == Message("comment", 0, [NoArguments EXCEPT !.comments = entries])

Codes == {PAID_PROGRAM, MULTIPLE_CONNECTION, OTHER_CODE}

\* ------------------------------------------------------------ dictionaries
DictSet(d, k, v) == [i \in DOMAIN d \cup {k} |-> IF i = k THEN v ELSE d[i]]
DictPop(d, k) == [i \in DOMAIN d \ {k} |-> d[i]]
EmptyDict == [i \in {} |-> NoArguments]


\* ------------------------------------------------------------------ tasks
Tasks == {"incoming", "heartbeat"}

TaskDone(t) ==
    IF t = "incoming" THEN incoming_pc \in {"raised", "cancelled"}
    ELSE heartbeat_pc = "cancelled"

\* (mutant) only the first task of self._tasks is cancelled.
CancelTasksFirstOnly ==
    {t \in {"incoming"} : incoming_pc \notin {"raised", "cancelled"}}

\* __aexit__, `for task in self._tasks: task.cancel()`: the tasks that will get a
\* CancelledError the next time they run (cancel() on a finished task does nothing).
CancelTasks == {t \in Tasks : ~TaskDone(t)}

\* A task runs its own code only while no cancellation is pending on it.
Runs(t) == t \notin must_cancel

\* ----------------------------------------------------------- _send_message
\* (mutant) `self._msg_id = 1`
NextMsgIdReset(m) == 1

\* `self._msg_id += 1`
NextMsgId(m) == m + 1

\* the frame of `send_json({... 'id': self._msg_id})`; by: the sender
Frame(name, id, by) == [name |-> name, id |-> id, by |-> by]

\* `return self._msg_id` after the await of send_json: the field as it is when
\* the sender is resumed.
ReturnedMsgId == msg_id

\* _send_message up to its await: the counter is incremented and the frame, which
\* holds the new value, is handed to the socket.
SendMessage(name, by) ==
    /\ msg_id' = NextMsgId(msg_id)
    /\ sent' = Append(sent, Frame(name, NextMsgId(msg_id), by))

SentIds == {sent[i].id : i \in 1..Len(sent)}

\* The ids of the requests sent: a heartbeat is no request, the server sends no
\* reply to it.
RequestIds == {sent[i].id : i \in {j \in 1..Len(sent) : sent[j].name # "heartbeat"}}

\* -------------------------------------------------------- _receive_message
\* lines 148-149: a `_response_` is stored whole, under its id, by whoever reads it.
ReceiveStore(table, msg) ==
    IF msg.name = "_response_" THEN DictSet(table, msg.id, msg) ELSE table

\* The history of lines 148-149: who ran them for which id.
StoredBy(msg, by) ==
    IF msg.name = "_response_" THEN stored_by \cup {[id |-> msg.id, by |-> by]}
    ELSE stored_by

\* lines 143-144 with get_hls_information's `msg['arguments']`: the caller's look
\* in the table at the top of the loop of _receive_message(msg_id).
CallLookup(c, table, local) ==
    IF local \in DOMAIN table
    THEN /\ msg_responses' = DictPop(table, local)
         /\ popped_by' = popped_by \cup {[id |-> local, by |-> c]}
         /\ call_pc' = [call_pc EXCEPT ![c] = "returned"]
         /\ call_result' = [call_result EXCEPT ![c] = table[local].arguments]
    ELSE /\ msg_responses' = table
         /\ call_pc' = [call_pc EXCEPT ![c] = "receive"]
         /\ UNCHANGED <<call_result, popped_by>>

\* ------------------------------------------------------ _handle_incoming
\* (mutant) a final `else: raise self.ServerDisconnection()`.
DisconnectionExcAnyCode(code) ==
    IF code = PAID_PROGRAM THEN "PaidProgramDisconnection"
    ELSE IF code = MULTIPLE_CONNECTION THEN "MultipleConnectionError"
    ELSE "ServerDisconnection"

\* (mutant) the branch of code 4512 is missing.
DisconnectionExcPaidOnly(code) ==
    IF code = PAID_PROGRAM THEN "PaidProgramDisconnection" ELSE "none"

\* lines 123-126: the exception a control_disconnection code raises.
DisconnectionExc(code) ==
    IF code = PAID_PROGRAM THEN "PaidProgramDisconnection"
    ELSE IF code = MULTIPLE_CONNECTION THEN "MultipleConnectionError"
    ELSE "none"

ServerDisconnections == {"PaidProgramDisconnection", "MultipleConnectionError"}

\* line 129: `self.comments.put(comment)`. Queue.put is a coroutine function: the
\* call builds a coroutine object that is never awaited, so the queue is not changed.
QueuePut(queue, entry) == queue

RECURSIVE PutAll(_, _)
PutAll(queue, entries) ==
    IF entries = <<>> THEN queue
    ELSE PutAll(QueuePut(queue, Head(entries)), Tail(entries))

\* lines 117-129: what _handle_incoming does with a message _receive_message()
\* returned to it.
HandleIncoming(msg, table) ==
    /\ is_ready' = IF msg.name = "connect_complete" THEN TRUE ELSE is_ready
    /\ msg_responses' =
          IF msg.name = "_response_" THEN DictSet(table, msg.id, msg.arguments)
          ELSE table
    /\ incoming_exc' =
          IF msg.name = "control_disconnection"
          THEN DisconnectionExc(msg.arguments.code) ELSE "none"
    /\ incoming_pc' =
          IF /\ msg.name = "control_disconnection"
             /\ DisconnectionExc(msg.arguments.code) # "none"
          THEN "raised" ELSE "receive"
    /\ comments' =
          IF msg.name = "comment" THEN PutAll(comments, msg.arguments.comments)
          ELSE comments

\* The task's first step: up to the await of receive_json.
IncomingStart ==
    /\ UNCHANGED <<log_vars, sel_vars, st_vars>>
    /\ incoming_pc = "new"
    /\ Runs("incoming")
    /\ incoming_pc' = "receive"
    /\ UNCHANGED <<msg_id, msg_responses, is_ready, comments, ws_state, incoming_exc,
                   heartbeat_pc, must_cancel>>
    /\ UNCHANGED <<sock_vars, call_vars, dl_vars, rec_vars>>

\* receive_json hands the next frame to _handle_incoming's _receive_message(None):
\* a `_response_` is stored and the loop awaits again; any other message is
\* returned to _handle_incoming, which handles it and awaits the next one.
IncomingReceive ==
    /\ UNCHANGED <<sel_vars, st_vars>>
    /\ incoming_pc = "receive"
    /\ Runs("incoming")
    /\ inbound # <<>>
    /\ LET msg == Head(inbound)
           table == ReceiveStore(msg_responses, msg)
       IN  /\ inbound' = Tail(inbound)
           /\ stored_by' = StoredBy(msg, Incoming)
           /\ UNCHANGED popped_by
           /\ IF msg.name = "_response_"
              THEN /\ msg_responses' = table
                   /\ UNCHANGED <<is_ready, comments, incoming_pc, incoming_exc, handled>>
              ELSE /\ HandleIncoming(msg, table)
                   /\ handled' = Append(handled, msg)
    /\ UNCHANGED <<msg_id, ws_state, heartbeat_pc, must_cancel>>
    /\ UNCHANGED <<sent, responded, pushes, ncomments>>
    /\ UNCHANGED <<call_vars, dl_vars, rec_vars>>

\* ------------------------------------------------------ _handle_heartbeat
\* line 134 up to the await in send_json; reached from the task's start and from
\* the end of the sleep of line 135.
HeartbeatSend ==
    /\ UNCHANGED <<log_vars, sel_vars, st_vars>>
    /\ heartbeat_pc \in {"new", "sleep"}
    /\ Runs("heartbeat")
    /\ msg_id < MaxMsgId
    /\ SendMessage("heartbeat", Heartbeat)
    /\ heartbeat_pc' = "send"
    /\ UNCHANGED <<msg_responses, is_ready, comments, ws_state, incoming_pc,
                   incoming_exc, must_cancel>>
    /\ UNCHANGED <<inbound, responded, pushes, ncomments, handled>>
    /\ UNCHANGED <<call_vars, dl_vars, rec_vars>>

\* send_json returns; the id _send_message returns is dropped; line 135 sleeps.
HeartbeatSendReturn ==
    /\ UNCHANGED <<log_vars, sel_vars, st_vars>>
    /\ heartbeat_pc = "send"
    /\ Runs("heartbeat")
    /\ heartbeat_pc' = "sleep"
    /\ UNCHANGED <<msg_id, msg_responses, is_ready, comments, ws_state, incoming_pc,
                   incoming_exc, must_cancel>>
    /\ UNCHANGED <<sock_vars, call_vars, dl_vars, rec_vars>>

\* A task on which cancel() was called gets CancelledError at the await it is
\* suspended in (or before its first statement); neither loop catches it.
TaskCancelled(t) ==
    /\ UNCHANGED <<log_vars, sel_vars, st_vars>>
    /\ t \in must_cancel
    /\ must_cancel' = must_cancel \ {t}
    /\ incoming_pc' = IF t = "incoming" THEN "cancelled" ELSE incoming_pc
    /\ heartbeat_pc' = IF t = "heartbeat" THEN "cancelled" ELSE heartbeat_pc
    /\ UNCHANGED <<msg_id, msg_responses, is_ready, comments, ws_state, incoming_exc>>
    /\ UNCHANGED <<sock_vars, call_vars, dl_vars, rec_vars>>

\* ----------------------------------------------------------------- server
PushMessages ==
    {ConnectComplete}
    \cup {ControlDisconnection(code) : code \in Codes}
    \cup {Comment(<<ncomments + 1, ncomments + 2>>)}

\* The server sends an unsolicited message.
ServerPush(msg) ==
    /\ UNCHANGED <<log_vars, sel_vars, st_vars>>
    /\ ws_state = "open"
    /\ pushes < MaxPush
    /\ inbound' = Append(inbound, msg)
    /\ pushes' = pushes + 1
    /\ ncomments' = ncomments + Len(msg.arguments.comments)
    /\ UNCHANGED <<sent, responded, handled>>
    /\ UNCHANGED <<ws_vars, call_vars, dl_vars, rec_vars>>

\* The server answers a request it received, once.
ServerRespond(id) ==
    /\ UNCHANGED <<log_vars, sel_vars, st_vars>>
    /\ ws_state = "open"
    /\ id \in RequestIds \ responded
    /\ inbound' = Append(inbound, Response(id))
    /\ responded' = responded \cup {id}
    /\ UNCHANGED <<sent, pushes, ncomments, handled>>
    /\ UNCHANGED <<ws_vars, call_vars, dl_vars, rec_vars>>


\* --------------------------------------------- FC2WebSocket.__aexit__ (start)
\* lines 105-107 up to the await of self._ws.close(): both tasks are cancelled.
WsAexit ==
    /\ must_cancel' = CancelTasks
    /\ ws_state' = "closing"
    /\ dl_pc' = "ws_close"

\* ----------------------------------------------------- get_hls_information
\* lines 346-352 after get_hls_information returned: _get_hls_url, which raises
\* IndexError when the manifest holds no playlist (ok = FALSE), then the start of
\* LiveStreamRecorder.__aenter__ up to the await of create_subprocess_exec.
DlAfterCall(ok) ==
    IF ok
    THEN /\ dl_pc' = "rec_start"
         /\ UNCHANGED <<ws_state, must_cancel, dl_exc>>
    ELSE /\ WsAexit
         /\ dl_exc' = "IndexError"

\* What follows the caller's look in the table: download goes on when its own
\* call returned; any other caller keeps the result.
AfterLookup(c, ok) ==
    IF c = Download /\ call_pc'[c] = "returned"
    THEN DlAfterCall(ok)
    ELSE UNCHANGED <<ws_state, must_cancel, dl_pc, dl_exc>>

\* The caller whose await is c's: download's own task can be cancelled.
CallerRuns(c) ==
    /\ ws_state = "open"
    /\ c = Download => (cancel # "requested" /\ dl_pc = "get_hls_information")

\* A caller other than download calls get_hls_information: _send_message up to
\* the await of send_json.
CallSend(c) ==
    /\ UNCHANGED <<log_vars, sel_vars, st_vars>>
    /\ c # Download
    /\ call_pc[c] = "idle"
    /\ ws_state = "open"
    /\ msg_id < MaxMsgId
    /\ SendMessage("get_hls_information", c)
    /\ call_pc' = [call_pc EXCEPT ![c] = "send"]
    /\ call_sent' = [call_sent EXCEPT ![c] = NextMsgId(msg_id)]
    /\ UNCHANGED <<call_msg_id, call_result>>
    /\ UNCHANGED <<msg_responses, is_ready, comments, ws_state, incoming_pc,
                   incoming_exc, heartbeat_pc, must_cancel>>
    /\ UNCHANGED <<inbound, responded, pushes, ncomments, handled>>
    /\ UNCHANGED <<dl_vars, rec_vars>>

\* send_json returns to _send_message, which returns self._msg_id (line 161);
\* line 138 keeps it as msg_id and _receive_message(msg_id) looks in the table.
CallSendReturn(c, ok) ==
    /\ UNCHANGED <<sel_vars, st_vars>>
    /\ call_pc[c] = "send"
    /\ CallerRuns(c)
    /\ call_msg_id' = [call_msg_id EXCEPT ![c] = ReturnedMsgId]
    /\ CallLookup(c, msg_responses, ReturnedMsgId)
    /\ UNCHANGED stored_by
    /\ AfterLookup(c, ok)
    /\ UNCHANGED <<msg_id, is_ready, comments, incoming_pc, incoming_exc, heartbeat_pc>>
    /\ UNCHANGED <<call_sent, sock_vars, rec_vars>>
    /\ UNCHANGED <<params, dl_result, cancel, cancel_at, online_log, wait_i>>

\* receive_json hands the next frame to the caller's _receive_message(msg_id):
\* a `_response_` is stored, any other message is dropped (line 150 is false),
\* and the loop looks in the table again.
CallReceive(c, ok) ==
    /\ UNCHANGED <<sel_vars, st_vars>>
    /\ call_pc[c] = "receive"
    /\ CallerRuns(c)
    /\ inbound # <<>>
    /\ inbound' = Tail(inbound)
    /\ stored_by' = StoredBy(Head(inbound), c)
    /\ CallLookup(c, ReceiveStore(msg_responses, Head(inbound)), call_msg_id[c])
    /\ AfterLookup(c, ok)
    /\ UNCHANGED <<msg_id, is_ready, comments, incoming_pc, incoming_exc, heartbeat_pc>>
    /\ UNCHANGED <<sent, responded, pushes, ncomments, handled>>
    /\ UNCHANGED <<call_sent, call_msg_id, rec_vars>>
    /\ UNCHANGED <<params, dl_result, cancel, cancel_at, online_log, wait_i>>

\* A caller other than download suspended on a socket that was closed: its await
\* of send_json or receive_json raises.
CallAborted(c) ==
    /\ UNCHANGED <<log_vars, sel_vars, st_vars>>
    /\ c # Download
    /\ call_pc[c] \in {"send", "receive"}
    /\ ws_state = "closed"
    /\ call_pc' = [call_pc EXCEPT ![c] = "failed"]
    /\ UNCHANGED <<call_sent, call_msg_id, call_result>>
    /\ UNCHANGED <<ws_vars, sock_vars, dl_vars, rec_vars>>


\* ------------------------------------------------------ FC2LiveDL.download
\* (mutant) the CancelledError is swallowed at the await and download resumes.
DlRunsDespiteCancel == dl_result = "running"

\* download resumes from an await only when its task is not being cancelled.
DlRuns == dl_result = "running" /\ cancel # "requested"

\* (mutant) the check of wait_for_live is forgotten: download always waits.
RaisesNotOnlineNever(is_online, wait_for_live) == FALSE

\* lines 334-336: offline without wait_for_live raises NotOnlineException.
RaisesNotOnline(is_online, wait_for_live) == ~is_online /\ ~wait_for_live

\* `for _ in range(interval)`: main passes --poll-interval through type=float, and
\* range() of a float raises TypeError.
RangeRaises(p) == p.interval_is_float

\* download raises exc without having entered any `async with`.
DlRaise(exc) ==
    /\ dl_exc' = exc
    /\ dl_result' = "raised"
    /\ dl_pc' = "done"

\* line 333: the first is_online() returns.
DlIsOnline(online) ==
    /\ UNCHANGED <<log_vars, sel_vars, st_vars>>
    /\ dl_pc = "is_online"
    /\ DlRuns
    /\ online_log' = Append(online_log, online)
    /\ IF RaisesNotOnline(online, params.wait_for_live)
       THEN DlRaise("NotOnlineException")
       ELSE /\ dl_pc' = IF online THEN "get_websocket_url" ELSE "wait_is_online"
            /\ UNCHANGED <<dl_exc, dl_result>>
    /\ UNCHANGED <<params, cancel, cancel_at, wait_i>>
    /\ UNCHANGED <<ws_vars, sock_vars, call_vars, rec_vars>>

\* line 180: an is_online() of wait_for_online returns; when offline the for loop
\* of line 181 starts and line 183 sleeps for the first time.
DlWaitIsOnline(online) ==
    /\ UNCHANGED <<log_vars, sel_vars, st_vars>>
    /\ dl_pc = "wait_is_online"
    /\ DlRuns
    /\ Len(online_log) < MaxQueries
    /\ online_log' = Append(online_log, online)
    /\ IF online
       THEN /\ dl_pc' = "get_websocket_url"
            /\ UNCHANGED <<dl_exc, dl_result, wait_i>>
       ELSE IF RangeRaises(params)
       THEN /\ DlRaise("TypeError")
            /\ UNCHANGED wait_i
       ELSE /\ dl_pc' = "wait_sleep"
            /\ wait_i' = params.wait_poll_interval - 1
            /\ UNCHANGED <<dl_exc, dl_result>>
    /\ UNCHANGED <<params, cancel, cancel_at>>
    /\ UNCHANGED <<ws_vars, sock_vars, call_vars, rec_vars>>

\* line 183: a sleep(1) ends; the for loop sleeps again or the while loop asks again.
DlWaitSleep ==
    /\ UNCHANGED <<log_vars, sel_vars, st_vars>>
    /\ dl_pc = "wait_sleep"
    /\ DlRuns
    /\ IF wait_i > 0
       THEN /\ wait_i' = wait_i - 1
            /\ UNCHANGED dl_pc
       ELSE /\ dl_pc' = "wait_is_online"
            /\ UNCHANGED wait_i
    /\ UNCHANGED <<params, dl_exc, dl_result, cancel, cancel_at, online_log>>
    /\ UNCHANGED <<ws_vars, sock_vars, call_vars, rec_vars>>

\* lines 341-344: get_meta (cached), get_websocket_url's post returns, then
\* FC2WebSocket.__aenter__ up to the await of ws_connect.
DlGetWebsocketUrl ==
    /\ UNCHANGED <<log_vars, sel_vars, st_vars>>
    /\ dl_pc = "get_websocket_url"
    /\ DlRuns
    /\ dl_pc' = "ws_connect"
    /\ UNCHANGED <<params, dl_exc, dl_result, cancel, cancel_at, online_log, wait_i>>
    /\ UNCHANGED <<ws_vars, sock_vars, call_vars, rec_vars>>

\* lines 98-102 and 345: ws_connect returns, the two tasks are created, and
\* get_hls_information runs up to the await of send_json; or ws_connect raises.
DlWsConnect(ok) ==
    /\ UNCHANGED <<log_vars, sel_vars, st_vars>>
    /\ dl_pc = "ws_connect"
    /\ DlRuns
    /\ IF ok
       THEN /\ ws_state' = "open"
            /\ incoming_pc' = "new"
            /\ heartbeat_pc' = "new"
            /\ SendMessage("get_hls_information", Download)
            /\ call_pc' = [call_pc EXCEPT ![Download] = "send"]
            /\ call_sent' = [call_sent EXCEPT ![Download] = NextMsgId(msg_id)]
            /\ dl_pc' = "get_hls_information"
            /\ UNCHANGED <<dl_exc, dl_result>>
       ELSE /\ DlRaise("ClientConnectorError")
            /\ UNCHANGED <<ws_state, incoming_pc, heartbeat_pc, msg_id, sent,
                           call_pc, call_sent>>
    /\ UNCHANGED <<msg_responses, is_ready, comments, incoming_exc, must_cancel>>
    /\ UNCHANGED <<inbound, responded, pushes, ncomments, handled>>
    /\ UNCHANGED <<call_msg_id, call_result>>
    /\ UNCHANGED <<params, cancel, cancel_at, online_log, wait_i, rec_vars>>

\* ------------------------------------------------------ LiveStreamRecorder
\* (mutant) __aexit__ only waits for ffmpeg.
SendsSigintNever == FALSE

\* lines 249-251: SIGINT is sent when ffmpeg has no returncode yet.
SendsSigint == rec_state = "running"

\* LiveStreamRecorder.__aexit__ and what follows it: SIGINT when ffmpeg still
\* runs, then wait(), which returns at once when the returncode is set, and then
\* FC2WebSocket.__aexit__ up to its await.
RecAexit ==
    /\ rec_ret' = IF rec_state = "exited" THEN "code" ELSE "none"
    /\ rec_sigint' = (rec_sigint \/ SendsSigint)
    /\ IF rec_state = "exited"
       THEN /\ rec_waited' = TRUE
            /\ WsAexit
       ELSE /\ dl_pc' = "rec_wait"
            /\ UNCHANGED <<rec_waited, ws_state, must_cancel>>

\* lines 239-246 and 353-354: create_subprocess_exec returns; print_status and
\* get_status run up to the await of readuntil.
DlRecStart ==
    /\ UNCHANGED <<log_vars, sel_vars, st_vars>>
    /\ dl_pc = "rec_start"
    /\ DlRuns
    /\ rec_state' = "running"
    /\ dl_pc' = "get_status"
    /\ UNCHANGED <<rec_eof, rec_out, rec_lines, rec_sigint, rec_ret, rec_waited>>
    /\ UNCHANGED <<params, dl_exc, dl_result, cancel, cancel_at, online_log, wait_i>>
    /\ UNCHANGED <<ws_vars, sock_vars, call_vars>>

\* lines 255-284 and 354: readuntil returns a line or raises at the end of the
\* stream. A line get_status parses makes print_status return True and the loop
\* reads again; a line it fails on, or the end of the stream, makes the bare
\* except return False, which ends the loop and leaves the recorder's block.
DlGetStatus ==
    /\ UNCHANGED <<log_vars, sel_vars, st_vars>>
    /\ dl_pc = "get_status"
    /\ DlRuns
    /\ rec_out # <<>> \/ rec_eof
    /\ IF rec_out # <<>> /\ Head(rec_out) = "status"
       THEN /\ rec_out' = Tail(rec_out)
            /\ UNCHANGED <<dl_pc, rec_sigint, rec_ret, rec_waited, ws_state, must_cancel>>
       ELSE /\ rec_out' = IF rec_out # <<>> THEN Tail(rec_out) ELSE rec_out
            /\ RecAexit
    /\ UNCHANGED <<rec_state, rec_eof, rec_lines>>
    /\ UNCHANGED <<params, dl_exc, dl_result, cancel, cancel_at, online_log, wait_i>>
    /\ UNCHANGED <<msg_id, msg_responses, is_ready, comments, incoming_pc,
                   incoming_exc, heartbeat_pc>>
    /\ UNCHANGED <<sock_vars, call_vars>>

\* line 252: wait() returns once ffmpeg has exited; FC2WebSocket.__aexit__ starts.
DlRecWait ==
    /\ UNCHANGED <<log_vars, sel_vars, st_vars>>
    /\ dl_pc = "rec_wait"
    /\ DlRuns
    /\ rec_state = "exited"
    /\ rec_waited' = TRUE
    /\ WsAexit
    /\ UNCHANGED <<rec_state, rec_eof, rec_out, rec_lines, rec_sigint, rec_ret>>
    /\ UNCHANGED <<params, dl_exc, dl_result, cancel, cancel_at, online_log, wait_i>>
    /\ UNCHANGED <<msg_id, msg_responses, is_ready, comments, incoming_pc,
                   incoming_exc, heartbeat_pc>>
    /\ UNCHANGED <<sock_vars, call_vars>>

\* lines 356-357: how download ends once nothing is left to unwind.
DlOutcome(exc) ==
    IF exc = "CancelledError" THEN "interrupted"
    ELSE IF exc = "none" THEN "returned"
    ELSE "raised"

\* lines 107-108: self._ws.close() returns and download ends.
DlWsClose ==
    /\ UNCHANGED <<log_vars, sel_vars, st_vars>>
    /\ dl_pc = "ws_close"
    /\ DlRuns
    /\ ws_state' = "closed"
    /\ dl_pc' = "done"
    /\ dl_result' = DlOutcome(dl_exc)
    /\ UNCHANGED <<params, dl_exc, cancel, cancel_at, online_log, wait_i>>
    /\ UNCHANGED <<msg_id, msg_responses, is_ready, comments, incoming_pc,
                   incoming_exc, heartbeat_pc, must_cancel>>
    /\ UNCHANGED <<sock_vars, call_vars, rec_vars>>

\* ffmpeg writes a line to stderr; get_status parses "status" and raises on
\* "malformed" (line 281 on a token with two `=`).
RecorderWrite(line) ==
    /\ UNCHANGED <<log_vars, sel_vars, st_vars>>
    /\ rec_state = "running"
    /\ ~rec_eof
    /\ rec_lines < MaxLines
    /\ rec_out' = Append(rec_out, line)
    /\ rec_lines' = rec_lines + 1
    /\ UNCHANGED <<rec_state, rec_eof, rec_sigint, rec_ret, rec_waited>>
    /\ UNCHANGED <<ws_vars, sock_vars, call_vars, dl_vars>>

\* ffmpeg's stderr ends, as ffmpeg stops by itself or on the SIGINT: readuntil
\* raises IncompleteReadError once the lines before the end are read.
RecorderEof ==
    /\ UNCHANGED <<log_vars, sel_vars, st_vars>>
    /\ rec_state # "none"
    /\ ~rec_eof
    /\ rec_eof' = TRUE
    /\ UNCHANGED <<rec_state, rec_out, rec_lines, rec_sigint, rec_ret, rec_waited>>
    /\ UNCHANGED <<ws_vars, sock_vars, call_vars, dl_vars>>

\* The event loop learns that ffmpeg has exited: the returncode is set. The end
\* of stderr and the exit are two events, which the loop sees in either order.
RecorderExit ==
    /\ UNCHANGED <<log_vars, sel_vars, st_vars>>
    /\ rec_state = "running"
    /\ rec_state' = "exited"
    /\ UNCHANGED <<rec_eof, rec_out, rec_lines, rec_sigint, rec_ret, rec_waited>>
    /\ UNCHANGED <<ws_vars, sock_vars, call_vars, dl_vars>>

\* ------------------------------------------------------------ cancellation
\* main, lines 525-527: KeyboardInterrupt makes main cancel the task download
\* runs in.
Cancel ==
    /\ UNCHANGED <<log_vars, sel_vars, st_vars>>
    /\ cancel = "none"
    /\ dl_result = "running"
    /\ cancel' = "requested"
    /\ UNCHANGED <<params, dl_pc, dl_exc, dl_result, cancel_at, online_log, wait_i>>
    /\ UNCHANGED <<ws_vars, sock_vars, call_vars, rec_vars>>

BeforeChannel ==
    {"is_online", "wait_is_online", "wait_sleep", "get_websocket_url", "ws_connect"}

\* CancelledError is thrown into download at the await it is suspended in and
\* unwinds through the `async with` blocks it is inside of; print_status's bare
\* except swallows it (lines 260-262).
DlCancelled ==
    /\ UNCHANGED <<log_vars, sel_vars, st_vars>>
    /\ cancel = "requested"
    /\ dl_result = "running"
    /\ cancel' = "delivered"
    /\ cancel_at' = dl_pc
    /\ CASE dl_pc \in BeforeChannel ->
              /\ dl_pc' = "done"
              /\ dl_result' = "interrupted"
              /\ UNCHANGED <<dl_exc, call_pc, ws_state, must_cancel, rec_sigint, rec_ret, rec_waited>>
         [] dl_pc = "get_hls_information" ->
              /\ call_pc' = [call_pc EXCEPT ![Download] = "failed"]
              /\ WsAexit
              /\ dl_exc' = "CancelledError"
              /\ UNCHANGED <<dl_result, rec_sigint, rec_ret, rec_waited>>
         [] dl_pc \in {"rec_start", "rec_wait"} ->
              /\ WsAexit
              /\ dl_exc' = "CancelledError"
              /\ UNCHANGED <<dl_result, call_pc, rec_sigint, rec_ret, rec_waited>>
         [] dl_pc = "get_status" ->
              /\ RecAexit
              /\ UNCHANGED <<dl_exc, dl_result, call_pc>>
         [] dl_pc = "ws_close" ->
              /\ dl_pc' = "done"
              /\ dl_result' = "interrupted"
              /\ dl_exc' = "CancelledError"
              /\ UNCHANGED <<call_pc, ws_state, must_cancel, rec_sigint, rec_ret, rec_waited>>
    /\ UNCHANGED <<params, online_log, wait_i>>
    /\ UNCHANGED <<msg_id, msg_responses, is_ready, comments, incoming_pc,
                   incoming_exc, heartbeat_pc>>
    /\ UNCHANGED <<sock_vars, call_sent, call_msg_id, call_result>>
    /\ UNCHANGED <<rec_state, rec_eof, rec_out, rec_lines>>

\* ------------------------------------------------- FC2LiveDL._get_hls_url
STREAM_QUALITY ==
    ("150Kbps" :> 10) @@ ("400Kbps" :> 20) @@ ("1.2Mbps" :> 30) @@ ("2Mbps" :> 40)
        @@ ("3Mbps" :> 50) @@ ("sound" :> AUDIO_ONLY)

STREAM_LATENCY == ("low" :> 0) @@ ("high" :> 1) @@ ("mid" :> 2)

\* _get_mode
GetMode(q, l) == 0 + STREAM_QUALITY[q] + STREAM_LATENCY[l]

\* `playlist = None`
NoPlaylist == [mode |-> -1, url |-> [list |-> "", pos |-> 0]]

\* (mutant) the last name of line 392 is missing.
PlaylistNamesTwo == <<"playlists", "playlists_high_latency">>

\* the names of line 392, in the order of the for loop
PlaylistNames == <<"playlists", "playlists_high_latency", "playlists_middle_latency">>

\* (mutant) `playlists = hls_info[name]`
ExtendReplaces(playlists, info, name) ==
    IF name \in DOMAIN info THEN info[name] ELSE playlists

\* lines 393-394: `if name in hls_info: playlists.extend(hls_info[name])`
Extend(playlists, info, name) ==
    IF name \in DOMAIN info THEN playlists \o info[name] ELSE playlists

RECURSIVE MergeLoop(_, _, _)
MergeLoop(playlists, info, names) ==
    IF names = <<>> THEN playlists
    ELSE MergeLoop(Extend(playlists, info, Head(names)), info, Tail(names))

\* _merge_playlists
MergePlaylists(info) == MergeLoop(<<>>, info, PlaylistNames)

\* (mutant) the mode itself is the key.
KeyMapRaw(p) == p.mode

\* key_map of _sort_playlists
KeyMap(p) == IF p.mode >= AUDIO_ONLY THEN p.mode - AUDIO_ONLY ELSE p.mode

\* sorted(reverse=True, key=key_map) is stable: an element goes behind every
\* element placed before it whose key is not smaller than its own.
RECURSIVE InsertDescending(_, _)
InsertDescending(sorted, p) ==
    IF sorted = <<>> THEN <<p>>
    ELSE IF KeyMap(Head(sorted)) >= KeyMap(p)
    THEN <<Head(sorted)>> \o InsertDescending(Tail(sorted), p)
    ELSE <<p>> \o sorted

RECURSIVE SortLoop(_, _)
SortLoop(sorted, rest) ==
    IF rest = <<>> THEN sorted
    ELSE SortLoop(InsertDescending(sorted, Head(rest)), Tail(rest))

\* _sort_playlists
SortPlaylists(merged) == SortLoop(<<>>, merged)

\* (mutant) the first match is kept.
MatchFirst(pl, p, mode) == IF p.mode = mode /\ pl = NoPlaylist THEN p ELSE pl

\* lines 369-370: `if p['mode'] == mode: playlist = p`
Match(pl, p, mode) == IF p.mode = mode THEN p ELSE pl

RECURSIVE ScanLoop(_, _, _)
ScanLoop(pl, rest, mode) ==
    IF rest = <<>> THEN pl
    ELSE ScanLoop(Match(pl, Head(rest), mode), Tail(rest), mode)

\* line 373 raises IndexError on an empty list when no playlist matched.
GetPlaylistOrBestRaises(sorted, mode) ==
    ScanLoop(NoPlaylist, sorted, mode) = NoPlaylist /\ sorted = <<>>

\* _get_playlist_or_best, when it returns
GetPlaylistOrBest(sorted, mode) ==
    LET pl == ScanLoop(NoPlaylist, sorted, mode)
    IN  IF pl = NoPlaylist THEN sorted[1] ELSE pl

\* lines 360-361: the mode is computed and the lists are merged.
GetHlsUrlMerge ==
    /\ sel_pc = "call"
    /\ p_merged' = MergePlaylists(hls_info)
    /\ sel_pc' = "merged"
    /\ UNCHANGED <<quality, latency, hls_info, p_sorted, playlist>>
    /\ UNCHANGED <<session_vars, st_vars>>

\* line 362
GetHlsUrlSort ==
    /\ sel_pc = "merged"
    /\ p_sorted' = SortPlaylists(p_merged)
    /\ sel_pc' = "sorted"
    /\ UNCHANGED <<quality, latency, hls_info, p_merged, playlist>>
    /\ UNCHANGED <<session_vars, st_vars>>

\* lines 363-364: a playlist is selected, or line 373 raises IndexError.
GetHlsUrlSelect ==
    /\ sel_pc = "sorted"
    /\ IF GetPlaylistOrBestRaises(p_sorted, GetMode(quality, latency))
       THEN /\ sel_pc' = "raised"
            /\ UNCHANGED playlist
       ELSE /\ sel_pc' = "returned"
            /\ playlist' = GetPlaylistOrBest(p_sorted, GetMode(quality, latency))
    /\ UNCHANGED <<quality, latency, hls_info, p_merged, p_sorted>>
    /\ UNCHANGED <<session_vars, st_vars>>

\* _get_playlist_or_best is called once more with the same list and mode.
GetPlaylistOrBestAgain ==
    /\ sel_pc = "returned"
    /\ playlist' = GetPlaylistOrBest(p_sorted, GetMode(quality, latency))
    /\ sel_pc' = "again"
    /\ UNCHANGED <<quality, latency, hls_info, p_merged, p_sorted>>
    /\ UNCHANGED <<session_vars, st_vars>>

\* ------------------------------------------- LiveStreamRecorder.get_status
\* A str is the sequence of its characters. The values of a stats dict are ints
\* (the defaults of frame, fps and q) and strs.
IntValue(n) == [type |-> "int", int |-> n, str |-> <<>>]
StrValue(chars) == [type |-> "str", int |-> 0, str |-> chars]

\* lines 266-274
DefaultStats ==
    (<<"f", "r", "a", "m", "e">> :> IntValue(0)) @@
    (<<"f", "p", "s">> :> IntValue(0)) @@
    (<<"q">> :> IntValue(0)) @@
    (<<"s", "i", "z", "e">> :> StrValue(<<"0", "k", "B">>)) @@
    (<<"t", "i", "m", "e">> :> StrValue(<<"0", "0", ":", "0", "0", ":", "0", "0", ".", "0", "0">>)) @@
    (<<"b", "i", "t", "r", "a", "t", "e">> :> StrValue(<<"N", "/", "A">>)) @@
    (<<"s", "p", "e", "e", "d">> :> StrValue(<<"N", "/", "A">>))

\* `stats` before get_status was called
NoStats == [k \in {} |-> StrValue(<<>>)]

\* str.split(sep): the pieces between the separators, empty ones included.
RECURSIVE SplitLoop(_, _, _, _)
SplitLoop(pieces, piece, rest, sep) ==
    IF rest = <<>> THEN Append(pieces, piece)
    ELSE IF Head(rest) = sep THEN SplitLoop(Append(pieces, piece), <<>>, Tail(rest), sep)
    ELSE SplitLoop(pieces, Append(piece, Head(rest)), Tail(rest), sep)

Split(chars, sep) == SplitLoop(<<>>, <<>>, chars, sep)

NonEmpty(x) == Len(x) > 0

\* line 276: `[x for x in stderr.split(' ') if len(x) > 0]`
Parts(stderr) == SelectSeq(Split(stderr, " "), NonEmpty)

\* `'=' in item`
HasEquals(item) == \E i \in 1..Len(item) : item[i] = "="

\* `last_item[-1] == '='`
EndsWithEquals(item) == item[Len(item)] = "="

\* `last_item[:-1]`
ButLast(item) == SubSeq(item, 1, Len(item) - 1)

\* line 281: `k, v = item.split('=')` raises ValueError unless the split yields
\* two pieces.
UnpackRaises(item) == Len(Split(item, "=")) # 1 + 1

\* lines 277-283: the loop over the parts; exc is the exception that ended it.
RECURSIVE ItemLoop(_, _, _)
ItemLoop(st, last_item, parts) ==
    IF parts = <<>> THEN [exc |-> "none", stats |-> st]
    ELSE LET item == Head(parts)
         IN  IF EndsWithEquals(last_item)
             THEN ItemLoop(DictSet(st, ButLast(last_item), StrValue(item)), item, Tail(parts))
             ELSE IF HasEquals(item)
             THEN IF UnpackRaises(item)
                  THEN [exc |-> "ValueError", stats |-> st]
                  ELSE ItemLoop(DictSet(st, Split(item, "=")[1], StrValue(Split(item, "=")[1 + 1])),
                                item, Tail(parts))
             ELSE ItemLoop(st, item, Tail(parts))

\* get_status on the line readuntil returned (the carriage return included)
ParseStatus(stderr) == ItemLoop(DefaultStats, <<"-">>, Parts(stderr))

\* get_status: readuntil returns the next line, which is parsed; the stats are
\* returned or ValueError is raised.
GetStatus ==
    /\ st_pc = "readuntil"
    /\ st_lines # <<>>
    /\ st_lines' = Tail(st_lines)
    /\ st_line' = Head(st_lines)
    /\ IF ParseStatus(Head(st_lines)).exc = "none"
       THEN /\ stats' = ParseStatus(Head(st_lines)).stats
            /\ UNCHANGED st_pc
       ELSE /\ st_pc' = "raised"
            /\ UNCHANGED stats
    /\ UNCHANGED <<session_vars, sel_vars>>

\* ------------------------------------------------------------ specification
Params ==
    [wait_for_live : BOOLEAN, wait_poll_interval : 1..MaxInterval,
     interval_is_float : BOOLEAN]

\* download has been called and is suspended in its first is_online().
SessionInit ==
    /\ msg_id = 0
    /\ msg_responses = EmptyDict
    /\ is_ready = FALSE
    /\ comments = <<>>
    /\ ws_state = "none"
    /\ incoming_pc = "none"
    /\ incoming_exc = "none"
    /\ heartbeat_pc = "none"
    /\ must_cancel = {}
    /\ inbound = <<>>
    /\ sent = <<>>
    /\ responded = {}
    /\ pushes = 0
    /\ ncomments = 0
    /\ handled = <<>>
    /\ call_pc = [c \in Callers |-> "idle"]
    /\ call_sent = [c \in Callers |-> 0]
    /\ call_msg_id = [c \in Callers |-> 0]
    /\ call_result = [c \in Callers |-> NoArguments]
    /\ params \in Params
    /\ dl_pc = "is_online"
    /\ dl_exc = "none"
    /\ dl_result = "running"
    /\ cancel = "none"
    /\ cancel_at = "none"
    /\ online_log = <<>>
    /\ wait_i = 0
    /\ rec_state = "none"
    /\ rec_eof = FALSE
    /\ rec_out = <<>>
    /\ rec_lines = 0
    /\ rec_sigint = FALSE
    /\ rec_ret = "unset"
    /\ rec_waited = FALSE
    /\ stored_by = {}
    /\ popped_by = {}

\* _get_hls_url is not being called on its own.
SelectOff ==
    /\ quality = "3Mbps"
    /\ latency = "mid"
    /\ hls_info = EmptyDict
    /\ sel_pc = "off"
    /\ p_merged = <<>>
    /\ p_sorted = <<>>
    /\ playlist = NoPlaylist

\* get_status is not being called on its own.
StatusOff ==
    /\ st_lines = <<>>
    /\ st_pc = "off"
    /\ st_line = <<>>
    /\ stats = NoStats

Init == SessionInit /\ SelectOff /\ StatusOff

\* The run the channel is studied in: no waiting for the stream.
InitChannel ==
    /\ Init
    /\ params = [wait_for_live |-> FALSE, wait_poll_interval |-> 1,
                 interval_is_float |-> FALSE]

\* The session, with download as far as it drives it: opening the channel, the
\* call, the recorder's block and the closing of the channel.
ChannelNext ==
    \/ \E online \in BOOLEAN : DlIsOnline(online)
    \/ DlGetWebsocketUrl
    \/ \E ok \in BOOLEAN : DlWsConnect(ok)
    \/ \E c \in Callers, ok \in BOOLEAN : CallSendReturn(c, ok)
    \/ \E c \in Callers, ok \in BOOLEAN : CallReceive(c, ok)
    \/ IncomingStart
    \/ IncomingReceive
    \/ HeartbeatSend
    \/ HeartbeatSendReturn
    \/ \E t \in Tasks : TaskCancelled(t)
    \/ \E id \in 1..MaxMsgId : ServerRespond(id)
    \/ DlRecStart
    \/ DlGetStatus
    \/ DlRecWait
    \/ DlWsClose
    \/ RecorderEof
    \/ RecorderExit

\* One session in which the server pushes messages of every kind.
Next ==
    \/ ChannelNext
    \/ \E msg \in PushMessages : ServerPush(msg)

Spec == InitChannel /\ [][Next]_vars

\* One session in which other callers call concurrently with download.
CallNext ==
    \/ ChannelNext
    \/ \E c \in Callers : CallSend(c)
    \/ \E c \in Callers : CallAborted(c)

CallSpec == InitChannel /\ [][CallNext]_vars

\* The whole run: every setting of wait_for_live and wait_poll_interval, the
\* polling, the recorder's output and the user's interrupt.
RunNext ==
    \/ ChannelNext
    \/ \E online \in BOOLEAN : DlWaitIsOnline(online)
    \/ DlWaitSleep
    \/ \E line \in {"status", "malformed"} : RecorderWrite(line)
    \/ Cancel
    \/ DlCancelled

RunSpec == Init /\ [][RunNext]_vars

\* The modes of the variants tried: 2 and 92 have the same key, 52 is a mode
\* that can be asked for.
Modes == {2, 52, 92}

RECURSIVE SeqsUpTo(_, _)
SeqsUpTo(S, n) ==
    IF n = 0 THEN {<<>>}
    ELSE SeqsUpTo(S, n - 1) \cup [1..n -> S]

\* The list `name` of a manifest whose variants have the modes ms: the url tells
\* the variants of a manifest apart.
Variants(name, ms) ==
    [i \in 1..Len(ms) |-> [mode |-> ms[i], url |-> [list |-> name, pos |-> i]]]

\* the optional keys of a manifest
NameSet == {"playlists", "playlists_high_latency", "playlists_middle_latency"}

\* The numbers of variants of the three lists: MaxList variants at most in all.
Lengths ==
    {l \in [NameSet -> 0..MaxList] :
        l["playlists"] + l["playlists_high_latency"]
            + l["playlists_middle_latency"] <= MaxList}

\* The keys a manifest with these lists can have: a list with variants is
\* present, a list without is absent or empty.
Present(l) == {S \in SUBSET NameSet : \A name \in NameSet : l[name] > 0 => name \in S}

\* The manifests: any of the three lists present, with MaxList variants at most
\* in all.
Manifests ==
    UNION {UNION {{[name \in S |-> Variants(name, f[name])] :
                      f \in {[playlists |-> a, playlists_high_latency |-> b,
                               playlists_middle_latency |-> c] :
                                 a \in [1..l["playlists"] -> Modes],
                                 b \in [1..l["playlists_high_latency"] -> Modes],
                                 c \in [1..l["playlists_middle_latency"] -> Modes]}} :
                  S \in Present(l)} :
           l \in Lengths}

\* _get_hls_url has been called with a manifest.
InitSelect ==
    /\ SessionInit
    /\ params = [wait_for_live |-> FALSE, wait_poll_interval |-> 1,
                 interval_is_float |-> FALSE]
    /\ StatusOff
    /\ quality \in {"3Mbps", "sound"}
    /\ latency = "mid"
    /\ hls_info \in Manifests
    /\ sel_pc = "call"
    /\ p_merged = <<>>
    /\ p_sorted = <<>>
    /\ playlist = NoPlaylist

SelectNext ==
    \/ GetHlsUrlMerge
    \/ GetHlsUrlSort
    \/ GetHlsUrlSelect
    \/ GetPlaylistOrBestAgain

SelectSpec == InitSelect /\ [][SelectNext]_vars

\* The status line of the specification's scenario, as readuntil returns it.
ScenarioText ==
    <<"f", "r", "a", "m", "e", "=", "1", "0", " ", "f", "p", "s", "=", "2", "5",
      ".", "0", " ", "q", "=", "-", "1", ".", "0", " ", "s", "i", "z", "e", "=",
      "1", "0", "2", "4", "k", "B", " ", "t", "i", "m", "e", "=", "0", "0", ":",
      "0", "0", ":", "0", "1", ".", "0", "0", " ", "b", "i", "t", "r", "a", "t",
      "e", "=", "N", "/", "A", " ", "s", "p", "e", "e", "d", "=", "1", ".", "0",
      "x">>

ScenarioLine == ScenarioText \o <<"\r">>

\* The lines readuntil can return: up to MaxChars characters other than the
\* carriage return, and the carriage return that ends them.
Lines ==
    {chars \o <<"\r">> : chars \in SeqsUpTo({"k", "=", " "}, MaxChars)}
        \cup {ScenarioLine}

\* get_status is called for one line, or for two, one of them the scenario's.
InitStatus ==
    /\ SessionInit
    /\ params = [wait_for_live |-> FALSE, wait_poll_interval |-> 1,
                 interval_is_float |-> FALSE]
    /\ SelectOff
    /\ st_lines \in {<<l>> : l \in Lines}
                     \cup {<<ScenarioLine, l>> : l \in Lines}
                     \cup {<<l, ScenarioLine>> : l \in Lines}
    /\ st_pc = "readuntil"
    /\ st_line = <<>>
    /\ stats = NoStats

StatusNext == GetStatus

StatusSpec == InitStatus /\ [][StatusNext]_vars


\* ================================================================== claims

\* C1: whenever a call of get_hls_information has returned, what it returned is
\* the arguments of the `_response_` whose id is the id the call put in its own
\* request, whatever the number of concurrent calls and the order of arrival.
C1_ReturnsOwnResponse ==
    \A c \in Callers :
        call_pc[c] = "returned" => call_result[c] = Response(call_sent[c]).arguments

\* C2: the id under which a call looks up its response is the id of the request
\* it transmitted, also when the heartbeat loop sends while the call is suspended
\* in its send.
C2_WaitsOnSentId ==
    \A c \in Callers : call_msg_id[c] # 0 => call_msg_id[c] = call_sent[c]

\* A call suspended in the receive of _receive_message(msg_id), on an open socket,
\* whose task is not being cancelled.
Pending(c) ==
    /\ call_pc[c] = "receive"
    /\ ws_state = "open"
    /\ c = Download => cancel # "requested"

\* The step by which call c returns.
CallReturns(c) ==
    /\ \E ok \in BOOLEAN : CallReceive(c, ok)
    /\ call_pc'[c] = "returned"

\* C3: once the `_response_` a pending call waits for is stored in the table, the
\* call can return by a step of its own, without any further message arriving on
\* the socket.
C3_StoredResponseWakesCall ==
    \A c \in Callers :
        (Pending(c) /\ call_msg_id[c] \in DOMAIN msg_responses)
            => ENABLED CallReturns(c)

\* C4: the ids of the messages sent in one session, requests and heartbeats
\* alike, are 1, 2, 3, ... in send order: pairwise distinct, strictly increasing,
\* the first one 1.
C4_IdsIncrease == \A i \in 1..Len(sent) : sent[i].id = i

\* C4's case: a heartbeat was sent while download's call was suspended in its send,
\* and another message after it.
C4_Witness ==
    /\ Len(sent) >= 3
    /\ sent[1].by = Download
    /\ sent[2].name = "heartbeat"
    /\ call_pc[Download] = "send"


\* C5: once a control_disconnection with code 4101 or 4512 has ended the dispatch
\* loop, the session is torn down: no message (no heartbeat) is sent any more, and
\* the run neither obtains the manifest nor starts the recorder afterwards.
C5_DisconnectionTearsDown ==
    [][incoming_pc = "raised" =>
          /\ sent' = sent
          /\ call_pc[Download] # "returned" => call_pc'[Download] # "returned"
          /\ rec_state = "none" => rec_state' = "none"]_vars

\* A control_disconnection the dispatch loop ends on.
Fatal(msg) ==
    /\ msg.name = "control_disconnection"
    /\ msg.arguments.code \in {PAID_PROGRAM, MULTIPLE_CONNECTION}

\* C6: a control_disconnection handled by the dispatch loop ends it with
\* PaidProgramDisconnection when its code is 4101 and with MultipleConnectionError
\* when it is 4512, it is the last message the loop handles, and the loop ends in
\* no other way with an exception.
C6_DisconnectionRaises ==
    /\ \A i \in 1..Len(handled) :
          Fatal(handled[i]) =>
              /\ i = Len(handled)
              /\ incoming_pc = "raised"
              /\ incoming_exc =
                    IF handled[i].arguments.code = PAID_PROGRAM
                    THEN "PaidProgramDisconnection" ELSE "MultipleConnectionError"
    /\ incoming_pc = "raised" => (handled # <<>> /\ Fatal(handled[Len(handled)]))
    /\ incoming_pc = "raised" <=> incoming_exc \in ServerDisconnections

\* C6's case: code 4512 has ended the loop, after another message was handled, and
\* a message that arrived later stays unhandled.
C6_Witness ==
    /\ incoming_exc = "MultipleConnectionError"
    /\ Len(handled) >= 2
    /\ inbound # <<>>

\* The entries of the comment messages in hs, in order.
RECURSIVE CommentEntries(_)
CommentEntries(hs) ==
    IF hs = <<>> THEN <<>>
    ELSE (IF Head(hs).name = "comment" THEN Head(hs).arguments.comments ELSE <<>>)
             \o CommentEntries(Tail(hs))

\* C7: the comment queue holds every entry of every comment message the dispatch
\* loop has handled, in the order the server sent them.
C7_CommentsQueued == comments = CommentEntries(handled)

\* C8: once close() has returned, no message is sent and the dispatch loop takes
\* no frame from the socket and handles nothing, whatever the two loops were
\* doing when close() was called.
C8_NothingAfterClose ==
    [][ws_state = "closed" =>
          /\ sent' = sent
          /\ inbound' = inbound
          /\ handled' = handled
          /\ msg_responses' = msg_responses
          /\ is_ready' = is_ready]_vars

\* C8's case: close() has returned with the dispatch loop ended by an exception,
\* the heartbeat loop cancelled after it had sent, and a frame left on the socket.
C8_Witness ==
    /\ ws_state = "closed"
    /\ incoming_pc = "raised"
    /\ heartbeat_pc = "cancelled"
    /\ \E i \in 1..Len(sent) : sent[i].name = "heartbeat"
    /\ inbound # <<>>

\* C8's other cases: close() was called before either loop had run, and while
\* the heartbeat loop was suspended in its send and the dispatch loop in its
\* receive.
C8_WitnessNotStarted ==
    /\ ws_state = "closed"
    /\ incoming_pc = "new"
    /\ heartbeat_pc = "new"
    /\ must_cancel = Tasks

C8_WitnessSuspended ==
    /\ ws_state = "closed"
    /\ incoming_pc = "receive"
    /\ heartbeat_pc = "send"
    /\ must_cancel = Tasks
    /\ inbound # <<>>

\* The awaits inside the `async with FC2WebSocket` block that C9 names.
InChannel == {"get_hls_information", "rec_start", "get_status"}

\* What C9 and its amended form share: download has ended after a cancellation
\* delivered inside the channel's block, the socket is closed, both loops are
\* cancelled or ended, and download did not go on to the step after the await it
\* was cancelled in.
C9_Unwound ==
    /\ ws_state = "closed"
    /\ \A t \in Tasks : TaskDone(t) \/ t \in must_cancel
    /\ cancel_at = "get_hls_information" => call_pc[Download] = "failed"
    /\ cancel_at \in {"get_hls_information", "rec_start"} => rec_state = "none"

\* C9: when download, cancelled inside the channel's block, has returned, the
\* channel is closed and the recorder, if it was started, has been sent SIGINT and
\* its exit has been awaited.
C9_CancelUnwinds ==
    (dl_result # "running" /\ cancel_at \in InChannel) =>
        /\ C9_Unwound
        /\ rec_state # "none" => (rec_sigint /\ rec_waited)

\* C9, amended: the recorder, if it was started, has exited and its exit has been
\* awaited; SIGINT was sent to it exactly when it had no returncode at the time
\* its block was left.
C9_CancelUnwindsAmended ==
    (dl_result # "running" /\ cancel_at \in InChannel) =>
        /\ C9_Unwound
        /\ rec_state # "none" =>
              /\ rec_state = "exited"
              /\ rec_waited
              /\ rec_sigint <=> rec_ret = "none"

\* C9's case: cancelled while awaiting a status line of a running ffmpeg.
C9_Witness ==
    /\ dl_result # "running"
    /\ cancel_at = "get_status"
    /\ rec_ret = "none"
    /\ rec_sigint
    /\ rec_waited
    /\ ws_state = "closed"

\* C10: offline without wait_for_live, download raises NotOnlineException after
\* its first query, with no channel opened, no message sent and no recorder
\* started; and in every run a channel is opened, a message sent or the recorder
\* started only after an is_online() that returned true, the last one made.
C10_OnlineBeforeChannel ==
    /\ (online_log # <<>> /\ ~online_log[1] /\ ~params.wait_for_live) =>
          /\ dl_exc = "NotOnlineException"
          /\ dl_result = "raised"
          /\ Len(online_log) = 1
          /\ ws_state = "none" /\ sent = <<>> /\ rec_state = "none"
    /\ dl_exc = "NotOnlineException" =>
          (~params.wait_for_live /\ online_log = <<FALSE>>)
    /\ (ws_state # "none" \/ sent # <<>> \/ rec_state # "none"
            \/ dl_pc \in {"get_websocket_url", "ws_connect"}) =>
          (online_log # <<>> /\ online_log[Len(online_log)])

\* C10's cases: offline without wait_for_live; and with it, a channel opened after
\* an offline and an online answer.
C10_Witness ==
    /\ ~params.wait_for_live
    /\ online_log = <<FALSE>>
    /\ dl_exc = "NotOnlineException"
    /\ ws_state = "none"

C10_WitnessWait ==
    /\ params.wait_for_live
    /\ online_log = <<FALSE, TRUE>>
    /\ ws_state = "open"

\* The steps of wait_for_online's sleeps, and of a download cancelled in one.
C11_Step ==
    /\ (dl_pc # "wait_sleep" /\ dl_pc' = "wait_sleep") =>
          wait_i' = params.wait_poll_interval - 1
    /\ (dl_pc = "wait_sleep" /\ dl_pc' = "wait_sleep") =>
          wait_i' \in {wait_i, wait_i - 1}
    /\ (dl_pc = "wait_sleep" /\ dl_pc' = "wait_is_online") => wait_i = 0
    /\ (dl_pc = "wait_sleep" /\ cancel = "requested") =>
          /\ dl_pc' \in {"wait_sleep", "done"}
          /\ wait_i' = wait_i
          /\ online_log' = online_log
    /\ cancel_at = "wait_sleep" => (dl_pc' = "done" /\ online_log' = online_log)

Matches(ps, m) == {i \in 1..Len(ps) : ps[i].mode = m}

Last(S) == CHOOSE i \in S : \A j \in S : j <= i

\* _get_playlist_or_best has returned.
Selected == sel_pc \in {"returned", "again"}

\* C12: from a non-empty sorted list _get_playlist_or_best returns the last
\* playlist whose mode is the desired mode when there is one, and the first
\* playlist of the list otherwise; called again with the same list and mode it
\* returns the same playlist.
C12_LastMatchOrFirst ==
    /\ (sel_pc \in {"raised", "returned", "again"} /\ p_sorted # <<>>) => Selected
    /\ Selected =>
          LET idx == Matches(p_sorted, GetMode(quality, latency))
          IN  playlist = IF idx # {} THEN p_sorted[Last(idx)] ELSE p_sorted[1]

\* C12's cases: two playlists of the desired mode, the later one returned twice;
\* and no playlist of the desired mode in a list of two.
C12_Witness ==
    /\ sel_pc = "again"
    /\ Cardinality(Matches(p_sorted, GetMode(quality, latency))) >= 2
    /\ playlist = p_sorted[Len(p_sorted)]
    /\ playlist # p_sorted[1]

C12_WitnessFallback ==
    /\ sel_pc = "again"
    /\ Matches(p_sorted, GetMode(quality, latency)) = {}
    /\ Len(p_sorted) >= 2
    /\ playlist = p_sorted[1]

\* The variants of the manifest.
ManifestVariants ==
    UNION {{hls_info[n][i] : i \in 1..Len(hls_info[n])} : n \in DOMAIN hls_info}

\* C13: _get_hls_url fails (IndexError of line 373, the spec's
\* EmptyManifestError) exactly when the manifest holds no variant in any of its
\* lists; otherwise it returns a variant of the manifest.
C13_RaisesIffEmpty ==
    sel_pc \in {"raised", "returned", "again"} =>
        /\ sel_pc = "raised" <=> ManifestVariants = {}
        /\ sel_pc # "raised" => playlist \in ManifestVariants

\* C13's cases: lists present but empty; no list at all; one variant in the
\* last list only.
C13_Witness ==
    /\ sel_pc = "raised"
    /\ DOMAIN hls_info = NameSet

C13_WitnessAbsent ==
    /\ sel_pc = "raised"
    /\ DOMAIN hls_info = {}

C13_WitnessOne ==
    /\ sel_pc = "returned"
    /\ DOMAIN hls_info = {"playlists_middle_latency"}
    /\ Len(p_merged) = 1

\* rankKey of the specification
RankKey(m) == IF m >= AUDIO_ONLY THEN m - AUDIO_ONLY ELSE m

\* The position of variant p in ps.
Position(ps, p) == CHOOSE i \in 1..Len(ps) : ps[i] = p

\* C14: the sorted list holds the merged variants, each once, in descending order
\* of rankKey (mode - 90 from mode 90 on, the mode otherwise), and variants of
\* equal rankKey are in the order they have in the merged list.
C14_SortedStable ==
    sel_pc \in {"sorted", "raised", "returned", "again"} =>
        /\ Len(p_sorted) = Len(p_merged)
        /\ \A i \in 1..Len(p_merged) : \E j \in 1..Len(p_sorted) : p_sorted[j] = p_merged[i]
        /\ \A i, j \in 1..Len(p_sorted) :
              i < j =>
                 /\ RankKey(p_sorted[i].mode) >= RankKey(p_sorted[j].mode)
                 /\ RankKey(p_sorted[i].mode) = RankKey(p_sorted[j].mode) =>
                       Position(p_merged, p_sorted[i]) < Position(p_merged, p_sorted[j])

\* C14's case: the sort has moved a variant to the front, past two variants of
\* equal rankKey and different modes, which kept their order.
C14_Witness ==
    /\ sel_pc = "sorted"
    /\ Len(p_sorted) >= 3
    /\ p_sorted[1] = p_merged[Len(p_merged)]
    /\ \E i \in 2..(Len(p_sorted) - 1) :
          /\ p_sorted[i].mode = AUDIO_ONLY + p_sorted[i + 1].mode
          /\ Position(p_merged, p_sorted[i]) < Position(p_merged, p_sorted[i + 1])

\* The lists of the names in order, one after the other, absent ones left out.
RECURSIVE Concatenation(_)
Concatenation(order) ==
    IF order = <<>> THEN <<>>
    ELSE (IF Head(order) \in DOMAIN hls_info THEN hls_info[Head(order)] ELSE <<>>)
             \o Concatenation(Tail(order))

\* The orders in which the three names can be taken.
NameOrders == {o \in [1..Cardinality(NameSet) -> NameSet] : \A n \in NameSet : \E i \in DOMAIN o : o[i] = n}

\* C15: the merged list is the concatenation of the lists present in the
\* manifest, each whole and in its own order: nothing of an absent list, no
\* variant dropped or twice.
C15_MergeConcatenates ==
    sel_pc \in {"merged", "sorted", "raised", "returned", "again"} =>
        \E order \in NameOrders : p_merged = Concatenation(order)

\* C15's case: two lists present, one of them of two variants, and one absent.
C15_Witness ==
    /\ sel_pc = "merged"
    /\ DOMAIN hls_info = {"playlists", "playlists_middle_latency"}
    /\ Len(hls_info["playlists"]) = 1
    /\ Len(hls_info["playlists_middle_latency"]) = 1 + 1
    /\ Len(p_merged) = MaxList

\* What the scenario's line parses to, by the specification.
ScenarioStats ==
    (<<"f", "r", "a", "m", "e">> :> StrValue(<<"1", "0">>)) @@
    (<<"f", "p", "s">> :> StrValue(<<"2", "5", ".", "0">>)) @@
    (<<"q">> :> StrValue(<<"-", "1", ".", "0">>)) @@
    (<<"s", "i", "z", "e">> :> StrValue(<<"1", "0", "2", "4", "k", "B">>)) @@
    (<<"t", "i", "m", "e">> :> StrValue(<<"0", "0", ":", "0", "0", ":", "0", "1", ".", "0", "0">>)) @@
    (<<"b", "i", "t", "r", "a", "t", "e">> :> StrValue(<<"N", "/", "A">>)) @@
    (<<"s", "p", "e", "e", "d">> :> StrValue(<<"1", ".", "0", "x">>))

\* C16: the scenario's line, ended by a carriage return, parses to exactly
\* frame 10, fps 25.0, q -1.0, size 1024kB, time 00:00:01.00, bitrate N/A and
\* speed 1.0x, whatever line was parsed before it: the carriage return is in no
\* value and nothing of an earlier line is left.
C16_ScenarioParses ==
    (st_line = ScenarioLine /\ st_pc = "readuntil") => stats = ScenarioStats

\* What the code returns for the scenario's line.
C16_CarriageReturnKept ==
    (st_line = ScenarioLine /\ st_pc = "readuntil") =>
        stats = DictSet(ScenarioStats, <<"s", "p", "e", "e", "d">>,
                        StrValue(<<"1", ".", "0", "x", "\r">>))

\* The token split once, at its first `=`.
FirstEquals(item) == CHOOSE i \in 1..Len(item) : item[i] = "=" /\ \A j \in 1..(i - 1) : item[j] # "="

\* The rule of the specification, token by token.
RECURSIVE RuleLoop(_, _, _)
RuleLoop(st, last_item, parts) ==
    IF parts = <<>> THEN st
    ELSE LET item == Head(parts)
         IN  IF last_item[Len(last_item)] = "="
             THEN RuleLoop(DictSet(st, SubSeq(last_item, 1, Len(last_item) - 1), StrValue(item)),
                           item, Tail(parts))
             ELSE IF HasEquals(item)
             THEN RuleLoop(DictSet(st, SubSeq(item, 1, FirstEquals(item) - 1),
                                   StrValue(SubSeq(item, FirstEquals(item) + 1, Len(item)))),
                           item, Tail(parts))
             ELSE RuleLoop(st, item, Tail(parts))

\* C20: get_status never fails, and the status it returns for a line is what the
\* rule gives: a token after a token that ends with `=` is that key's value,
\* otherwise a token with `=` is split once at its first `=`, otherwise the token
\* is ignored.
C20_ParseNeverFails ==
    /\ st_pc # "raised"
    /\ (st_pc = "readuntil" /\ st_line # <<>>) =>
          stats = RuleLoop(DefaultStats, <<"-">>, Parts(st_line))

\* What holds of the code: it fails exactly on a token with two or more `=`
\* that does not follow a token ending with `=`, and follows the rule otherwise.
C20_FailsOnSecondEquals ==
    /\ (st_pc = "readuntil" /\ st_line # <<>>) =>
          stats = RuleLoop(DefaultStats, <<"-">>, Parts(st_line))
    /\ st_pc = "raised" =>
          \E i \in 1..Len(Parts(st_line)) :
              /\ Len(Split(Parts(st_line)[i], "=")) > 1 + 1
              /\ i > 1 => ~EndsWithEquals(Parts(st_line)[i - 1])

\* A control_disconnection whose code is neither 4101 nor 4512.
Unrecognized(msg) == msg.name = "control_disconnection" /\ ~Fatal(msg)

Recognized(msg) == ~Unrecognized(msg)

\* The step in which the dispatch loop handles a message with an unrecognized code.
C17_Step ==
    (Len(handled') > Len(handled) /\ Unrecognized(handled'[Len(handled')])) =>
        /\ incoming_pc' = "receive"
        /\ incoming_exc' = "none"
        /\ UNCHANGED <<is_ready, msg_responses, comments>>

\* C17: handling a control_disconnection whose code is neither 4101 nor 4512
\* raises nothing and changes nothing, the loop awaits the next message, and the
\* state of the loop is at all times the one the other handled messages alone
\* give: ready after a connect_complete, ended by a later 4101 or 4512 and by
\* nothing else.
C17_UnrecognizedIgnored ==
    /\ [](LET hs == SelectSeq(handled, Recognized)
          IN  /\ is_ready <=> \E i \in 1..Len(hs) : hs[i].name = "connect_complete"
              /\ incoming_pc = "raised" <=> (hs # <<>> /\ Fatal(hs[Len(hs)]))
              /\ incoming_exc # "none" <=> incoming_pc = "raised")
    /\ [][C17_Step]_vars

\* C17's case: an unrecognized code was handled, and the 4101 that came after it
\* ended the loop.
C17_Witness ==
    /\ Len(handled) >= 2
    /\ Unrecognized(handled[1])
    /\ handled[Len(handled)] = ControlDisconnection(PAID_PROGRAM)
    /\ incoming_exc = "PaidProgramDisconnection"

\* C18: only the dispatch loop stores entries in the response table, and an entry
\* is removed at most once, by the call that sent the request with its id.
C18_OnlyDispatchWrites ==
    /\ \A e \in stored_by : e.by = Incoming
    /\ \A e \in popped_by : call_sent[e.by] = e.id
    /\ \A e1, e2 \in popped_by : e1.id = e2.id => e1 = e2

\* The messages in frames that are no `_response_`.
Pushes(frames) == SelectSeq(frames, LAMBDA m : m.name # "_response_")

\* C19: every message other than a `_response_` that has been taken from the
\* socket has been handled by the dispatch loop, also when a call was suspended
\* in its receive when the message arrived: of the messages the server pushed,
\* those not handled are still on the socket.
C19_NoPushLost == Len(handled) + Len(Pushes(inbound)) = pushes

====
